---- MODULE Spec2Model ----
(***************************************************************************)
(* IoT Smart Meter Simulator (src/app.py): the CSV replay publisher, its   *)
(* MQTT connection callbacks, the blocking connect and the status readers, *)
(* all sharing the dictionary _state under the lock _state_lock.           *)
(*                                                                         *)
(* Threads: "main" (module load, _connect_mqtt, thread start, Flask),      *)
(* "pub" (publisher_thread), "net" (the paho network loop that delivers    *)
(* the callbacks) and "rd" (a Flask request running status / api_status).  *)
(* The writes and the reads of last_payload, row_index and of the          *)
(* connection fields under `with _state_lock:` are steps of their own, so  *)
(* that the lock, and not the step size, is what makes a critical section  *)
(* atomic.  Numbers are held in units of 10^-7 and strings as sequences of *)
(* characters.  A second specification, PayloadSpec, applies build_payload *)
(* to rows drawn from a set of test rows.                                  *)
(***************************************************************************)
EXTENDS Integers, Sequences, FiniteSets, TLC

\* ---------------------------------------------------------------------------
\* Bounds of the model
\* ---------------------------------------------------------------------------
\* longest dataset loaded from the CSV file
MaxRows == 3
\* number of replay ticks explored
MaxTicks == 4

\* ---------------------------------------------------------------------------
\* Program constants
\* ---------------------------------------------------------------------------
PUBLISH_INTERVAL == 2
NOMINAL_FREQ_HZ == 50
BACKOFF == 5
ASSET_ID == "mumbai_campus_node_01"
MQTT_ERR_SUCCESS == 0
MQTT_ERR_NO_CONN == 4

\* Python's None
None == [py |-> "None"]
\* a Python str stored where None may be stored too
PyStr(s) == [str |-> s]

\* ---------------------------------------------------------------------------
\* Dataset: rows are mappings from CSV column to cell.  A cell is a number
\* (in units of 10^-7), a NaN (empty CSV cell), a text that float() rejects,
\* or absent (the column is not in the file: row[col] raises KeyError).
\* ---------------------------------------------------------------------------
Num(n) == [kind |-> "num", n |-> n, s |-> <<>>]
Text(s) == [kind |-> "text", n |-> 0, s |-> s]
NaN == [kind |-> "nan", n |-> 0, s |-> <<>>]
Absent == [kind |-> "absent", n |-> 0, s |-> <<>>]

COL_MAP == [timestamp |-> "Timestamp", voltage |-> "Voltage", current |-> "Current",
            power_cons |-> "PowerConsumption", react_power |-> "ReactivePower",
            power_factor |-> "PowerFactor", solar |-> "SolarPower", wind |-> "WindPower",
            grid_supply |-> "GridSupply", v_fluct |-> "VoltageFluctuation"]

\* the wall clock read by datetime.now(timezone.utc), in seconds after
\* 2026-01-01 00:00:00 UTC: midnight and 12:34:56
Clock == {0, 45296}

DigitChars == <<"0", "1", "2", "3", "4", "5", "6", "7", "8", "9">>

Digit(d) == DigitChars[d + 1]

\* %m, %d, %H, %M, %S: two digits
Pad2(n) == <<Digit(n \div 10), Digit(n % 10)>>

\* %Y: four digits
Pad4(n) == <<Digit(n \div 1000), Digit((n \div 100) % 10), Digit((n \div 10) % 10),
            Digit(n % 10)>>

\* the datetime of clock value t (within the first day)
UtcNow(t) == [year |-> 2026, month |-> 1, day |-> 1, hour |-> t \div 3600,
              minute |-> (t \div 60) % 60, second |-> t % 60]

\* strftime with the pattern of spaces and a local time, as in the CSV file
StrftimeLocal(t) ==
    LET dt == UtcNow(t)
    IN Pad4(dt.year) \o <<"-">> \o Pad2(dt.month) \o <<"-">> \o Pad2(dt.day) \o <<" ">>
       \o Pad2(dt.hour) \o <<":">> \o Pad2(dt.minute) \o <<":">> \o Pad2(dt.second)

\* datetime.now(timezone.utc).strftime("%Y-%m-%dT%H:%M:%SZ") at clock value t
Strftime(t) ==
    LET dt == UtcNow(t)
    IN Pad4(dt.year) \o <<"-">> \o Pad2(dt.month) \o <<"-">> \o Pad2(dt.day) \o <<"T">>
       \o Pad2(dt.hour) \o <<":">> \o Pad2(dt.minute) \o <<":">> \o Pad2(dt.second)
       \o <<"Z">>

\* the Timestamp cells of the CSV file
CsvTime1 == <<"2", "0", "2", "4", "-", "0", "1", "-", "0", "1", " ", "0", "0", ":", "0", "0", ":", "0", "0">>
CsvTime2 == <<"2", "0", "2", "4", "-", "0", "1", "-", "0", "1", " ", "0", "0", ":", "1", "5", ":", "0", "0">>

\* a cell that float() rejects
Garbage == <<"e", "r", "r">>

\* the i-th row of the CSV file (i from 1): every third row has an empty
\* timestamp cell, every second row lacks the voltage
RowN(i) ==
    [Timestamp |-> IF i % 3 = 0 THEN NaN
                   ELSE Text(IF i % 3 = 1 THEN CsvTime1 ELSE CsvTime2),
     Voltage |-> IF i % 2 = 0 THEN Absent ELSE Num(1201234567 + i),
     Current |-> Num(100000000 * i + 49996),
     PowerConsumption |-> Num(31234567),
     ReactivePower |-> IF i % 3 = 0 THEN Text(Garbage) ELSE Num(5000000),
     PowerFactor |-> Num(9512345),
     SolarPower |-> Num(0),
     WindPower |-> NaN,
     GridSupply |-> Num(10000000 * i),
     VoltageFluctuation |-> Num(0 - 1234565)]

\* the datasets pd.read_csv can return: 0 (header only) to MaxRows rows
Datasets == {[i \in 1..n |-> RowN(i)] : n \in 0..MaxRows}

\* ---------------------------------------------------------------------------
\* Helpers of the payload builder
\* ---------------------------------------------------------------------------
Abs(x) == IF x < 0 THEN 0 - x ELSE x

Pow10(k) == IF k = 0 THEN 1 ELSE IF k = 1 THEN 10 ELSE IF k = 2 THEN 100
            ELSE IF k = 3 THEN 1000 ELSE IF k = 4 THEN 10000
            ELSE IF k = 5 THEN 100000 ELSE 1000000

\* The magnitudes (units of 10^-7) among the values of this model that lie
\* halfway between two neighbours at 4 or 6 decimals and whose binary double
\* is greater than the decimal: 0.00005, 0.00025, 1.2345675.  The doubles of
\* the other halfway values (0.00015, 0.1234565, 0.9512345) are smaller.  No
\* halfway value is a double itself.
FloatAbove == {500, 2500, 12345675}

\* round(x, nd) of a float: the double is rounded correctly, so a value not
\* halfway goes to the nearest multiple of 10^(7-nd) and a halfway value goes
\* to the side on which its double lies
Round(x, nd) ==
    LET u == Pow10(7 - nd)
        a == Abs(x)
        q == a \div u
        r == a % u
        up == (2 * r > u) \/ (2 * r = u /\ a \in FloatAbove)
        m == (IF up THEN q + 1 ELSE q) * u
    IN IF x < 0 THEN 0 - m ELSE m

\* a sentinel instead of the default
safe_floatSentinel(row, col) ==
    LET val == row[col]
    IN IF val.kind = "num" THEN Round(val.n, 6) ELSE 0 - 10000000

\* round(float(val), 6) if pd.notna(val) else default; default on KeyError,
\* ValueError, TypeError; default = 0.0
safe_float(row, col) ==
    LET val == row[col]
    IN IF val.kind = "num" THEN Round(val.n, 6) ELSE 0

\* the decimal digits of a natural number
RECURSIVE NatStr(_)
NatStr(n) == IF n < 10 THEN <<Digit(n)>> ELSE NatStr(n \div 10) \o <<Digit(n % 10)>>

\* the k digits of a fraction f, without trailing zeros
RECURSIVE FracStr(_, _)
FracStr(f, k) ==
    IF k = 1 \/ f % Pow10(k - 1) = 0
    THEN <<Digit(f \div Pow10(k - 1))>>
    ELSE <<Digit(f \div Pow10(k - 1))>> \o FracStr(f % Pow10(k - 1), k - 1)

\* str(val) of a float of magnitude 0.0001 or more: its shortest decimal
FloatStr(n) ==
    (IF n < 0 THEN <<"-">> ELSE <<>>) \o NatStr(Abs(n) \div 10000000) \o <<".">>
    \o FracStr(Abs(n) % 10000000, 7)

\* str(val) if pd.notna(val) else default; default on KeyError; default = ""
safe_str(row, col) ==
    LET val == row[col]
    IN IF val.kind = "text" THEN val.s
       ELSE IF val.kind = "num" THEN FloatStr(val.n)
       ELSE <<>>

\* the timestamp with every row stamped by the clock
header_timestampClock(ts_raw, now) == Strftime(now)

\* if ts_raw: timestamp = ts_raw, else the current UTC time
header_timestamp(ts_raw, now) == IF ts_raw # <<>> THEN ts_raw ELSE Strftime(now)

build_payload(row, now) ==
    LET ts_raw == safe_str(row, COL_MAP.timestamp)
        timestamp == header_timestamp(ts_raw, now)
        voltage == safe_float(row, COL_MAP.voltage)
        current_a == safe_float(row, COL_MAP.current)
        power_cons == safe_float(row, COL_MAP.power_cons)
        react_pwr == safe_float(row, COL_MAP.react_power)
        pwr_factor == safe_float(row, COL_MAP.power_factor)
        solar == safe_float(row, COL_MAP.solar)
        wind == safe_float(row, COL_MAP.wind)
        grid_supply == safe_float(row, COL_MAP.grid_supply)
        v_fluct == safe_float(row, COL_MAP.v_fluct)
    IN [header |-> [asset_id |-> ASSET_ID, timestamp |-> timestamp, status |-> "online"],
        grid_state |-> [voltage_v |-> Round(voltage, 4),
                        current_a |-> Round(current_a, 4),
                        frequency_hz |-> NOMINAL_FREQ_HZ,
                        power_factor |-> Round(pwr_factor, 6),
                        voltage_fluctuation |-> Round(v_fluct, 6)],
        energy_flow |-> [load_kw |-> Round(power_cons, 4),
                         solar_gen_kw |-> Round(solar, 4),
                         wind_gen_kw |-> Round(wind, 4),
                         grid_supply_kw |-> Round(grid_supply, 4),
                         reactive_power_kvar |-> Round(react_pwr, 4)]]

\* ---------------------------------------------------------------------------
\* State
\* ---------------------------------------------------------------------------
VARIABLES
    state,          \* the shared dictionary _state
    lock,           \* holder of _state_lock: "free" or a thread
    df,             \* the loaded dataset _df
    main_pc,        \* position of the main thread
    main_timer,     \* time left of the main thread's time.sleep
    last_attempt,   \* outcome of the latest mqtt_client.connect: "none", "ok", "OSError"
    pub_pc,         \* position of publisher_thread
    idx,            \* publisher_thread's cursor
    payload,        \* publisher_thread's local payload
    connected,      \* publisher_thread's local copy of the connected flag
    result_rc,      \* rc of the latest publish call
    pub_timer,      \* time left of publisher_thread's time.sleep
    ticks,          \* completed iterations of the replay loop
    publish_calls,  \* calls of mqtt_client.publish so far
    last_pub,       \* tick and row of the latest publish call
    unacked,        \* published messages the broker has not acknowledged yet
    written,        \* the (payload, row_index) pairs the ticks have stored
    conn_reads,     \* ticks whose locked read of the connected flag gave True
    net_pc,         \* position of the paho network thread
    reason_code,    \* reason code of the on-connect event being handled
    acks,           \* completed _on_publish callbacks
    rd_pc,          \* position of the request thread
    rd,             \* the values the request has read
    bp              \* the calls of build_payload on a test row (PayloadSpec)

vars == <<state, lock, df, main_pc, main_timer, last_attempt, pub_pc, idx,
          payload, connected, result_rc, pub_timer, ticks, publish_calls, last_pub,
          unacked, written, conn_reads, net_pc, reason_code, acks, rd_pc, rd, bp>>

mainVars == <<main_pc, main_timer, last_attempt>>
pubVars == <<pub_pc, idx, payload, connected, result_rc, pub_timer, ticks,
             publish_calls, last_pub, written, conn_reads>>
netVars == <<net_pc, reason_code, acks>>
rdVars == <<rd_pc, rd>>

NoRead == [last_payload |-> None, row_index |-> 0, total_rows |-> 0,
           mqtt_connected |-> FALSE, publish_count |-> 0, last_error |-> None]

\* no call of build_payload outside the replay loop
NoCall == [pc |-> "none", row |-> None, now |-> 0, out |-> None, now2 |-> 0, out2 |-> None]

\* the process before the module-level code has run
ProcessInit ==
    /\ state = [last_payload |-> None, row_index |-> 0, total_rows |-> 0,
                mqtt_connected |-> FALSE, publish_count |-> 0, last_error |-> None]
    /\ lock = "free"
    /\ df = <<>>
    /\ main_pc = "load"
    /\ main_timer = 0
    /\ last_attempt = "none"
    /\ pub_pc = "not_started"
    /\ idx = 0
    /\ payload = None
    /\ connected = FALSE
    /\ result_rc = MQTT_ERR_SUCCESS
    /\ pub_timer = 0
    /\ ticks = 0
    /\ publish_calls = 0
    /\ last_pub = [tick |-> 0 - 1, idx |-> 0]
    /\ unacked = 0
    /\ written = {}
    /\ conn_reads = 0
    /\ net_pc = "off"
    /\ reason_code = 0
    /\ acks = 0
    /\ rd_pc = "idle"
    /\ rd = NoRead

Init ==
    /\ ProcessInit
    /\ bp = NoCall

\* ---------------------------------------------------------------------------
\* Main thread: module-level CSV load, _connect_mqtt, thread start
\* ---------------------------------------------------------------------------
\* the publisher thread started at import time, before _connect_mqtt
MainLoadStartsThread ==
    /\ main_pc = "load"
    /\ lock = "free"
    /\ \E d \in Datasets :
        /\ df' = d
        /\ state' = [state EXCEPT !.total_rows = Len(d)]
    /\ main_pc' = "connect"
    /\ pub_pc' = "fetch"
    /\ UNCHANGED <<bp, lock, main_timer, last_attempt, idx, payload, connected, result_rc,
                   pub_timer, ticks, publish_calls, last_pub, written, conn_reads, unacked,
                   netVars, rdVars>>

\* pd.read_csv succeeds; total_rows is stored under the lock
MainLoad ==
    /\ main_pc = "load"
    /\ lock = "free"
    /\ \E d \in Datasets :
        /\ df' = d
        /\ state' = [state EXCEPT !.total_rows = Len(d)]
    /\ main_pc' = "connect"
    /\ UNCHANGED <<bp, lock, main_timer, last_attempt, pubVars, unacked, netVars, rdVars>>

\* pd.read_csv raises (file missing, unparsable or without any column)
MainLoadError ==
    /\ main_pc = "load"
    /\ main_pc' = "load_error"
    /\ UNCHANGED <<bp, state, lock, df, main_timer, last_attempt, pubVars, unacked,
                   netVars, rdVars>>

\* mqtt_client.connect returns
MainConnectOk ==
    /\ main_pc = "connect"
    /\ last_attempt' = "ok"
    /\ main_pc' = "loop_start"
    /\ UNCHANGED <<bp, state, lock, df, main_timer, pubVars, unacked, netVars, rdVars>>

\* the network thread already running when connect raises
MainConnectFailLoopStarted ==
    /\ main_pc = "connect"
    /\ last_attempt' = "OSError"
    /\ main_pc' = "except"
    /\ net_pc' = IF net_pc = "off" THEN "idle" ELSE net_pc
    /\ UNCHANGED <<bp, state, lock, df, main_timer, pubVars, unacked, reason_code, acks, rdVars>>

\* mqtt_client.connect raises OSError
MainConnectFail ==
    /\ main_pc = "connect"
    /\ last_attempt' = "OSError"
    /\ main_pc' = "except"
    /\ UNCHANGED <<bp, state, lock, df, main_timer, pubVars, unacked, netVars, rdVars>>

MainExceptAcquire ==
    /\ main_pc = "except"
    /\ lock = "free"
    /\ lock' = "main"
    /\ main_pc' = "record_error"
    /\ UNCHANGED <<bp, state, df, main_timer, last_attempt, pubVars, unacked, netVars, rdVars>>

\* _state["last_error"] = str(exc); the lock is released; time.sleep(5) begins
MainRecordError ==
    /\ main_pc = "record_error"
    /\ state' = [state EXCEPT !.last_error = PyStr("OSError")]
    /\ lock' = "free"
    /\ main_pc' = "sleep"
    /\ main_timer' = BACKOFF
    /\ UNCHANGED <<bp, df, last_attempt, pubVars, unacked, netVars, rdVars>>

\* the loop left after the back-off instead of repeated
MainWakeGiveUp ==
    /\ main_pc = "sleep"
    /\ main_timer = 0
    /\ main_pc' = "loop_start"
    /\ UNCHANGED <<bp, state, lock, df, main_timer, last_attempt, pubVars, unacked,
                   netVars, rdVars>>

\* time.sleep(5) is over: the next iteration of the while loop
MainWake ==
    /\ main_pc = "sleep"
    /\ main_timer = 0
    /\ main_pc' = "connect"
    /\ UNCHANGED <<bp, state, lock, df, main_timer, last_attempt, pubVars, unacked,
                   netVars, rdVars>>

\* mqtt_client.loop_start(); break: _connect_mqtt returns
MainLoopStart ==
    /\ main_pc = "loop_start"
    /\ net_pc' = "idle"
    /\ main_pc' = "connected"
    /\ UNCHANGED <<bp, state, lock, df, main_timer, last_attempt, pubVars, unacked,
                   reason_code, acks, rdVars>>

\* threading.Thread(target=publisher_thread).start(); then app.run serves requests
MainStartThread ==
    /\ main_pc = "connected"
    /\ pub_pc' = "fetch"
    /\ idx' = 0
    /\ main_pc' = "serve"
    /\ UNCHANGED <<bp, state, lock, df, main_timer, last_attempt, payload, connected,
                   result_rc, pub_timer, ticks, publish_calls, last_pub, written, conn_reads,
                   unacked, netVars, rdVars>>

\* one unit of time passes for the threads inside time.sleep
TimePasses ==
    /\ \/ main_pc = "sleep" /\ main_timer > 0
       \/ pub_pc = "sleep" /\ pub_timer > 0
    /\ main_timer' = IF main_timer > 0 THEN main_timer - 1 ELSE 0
    /\ pub_timer' = IF pub_timer > 0 THEN pub_timer - 1 ELSE 0
    /\ UNCHANGED <<bp, state, lock, df, main_pc, last_attempt, pub_pc, idx, payload,
                   connected, result_rc, ticks, publish_calls, last_pub, written, conn_reads,
                   unacked, netVars, rdVars>>

\* ---------------------------------------------------------------------------
\* publisher_thread
\* ---------------------------------------------------------------------------
\* total = len(_df)
total == Len(df)

\* the cursor itself stored as row_index
RowIndexOfCursor(i) == i

\* _state["row_index"] = idx + 1
RowIndexOf(i) == i + 1

\* the cursor advanced without wrapping
NextIdxNoWrap(i, n) == i + 1

\* idx = (idx + 1) % total
NextIdx(i, n) == (i + 1) % n

\* row = _df.iloc[idx]; payload = build_payload(row); json.dumps(payload).
\* iloc raises IndexError outside 0..len-1 (idx is never negative) and the
\* thread ends
PubFetch ==
    /\ pub_pc = "fetch"
    /\ ticks < MaxTicks
    /\ IF idx < Len(df)
       THEN /\ \E now \in Clock : payload' = build_payload(df[idx + 1], now)
            /\ pub_pc' = "lock1"
       ELSE /\ pub_pc' = "IndexError"
            /\ UNCHANGED payload
    /\ UNCHANGED <<bp, state, lock, df, mainVars, idx, connected, result_rc, pub_timer, ticks,
                   publish_calls, last_pub, written, conn_reads, unacked, netVars, rdVars>>

\* the flag read without the lock taken
PubAcquire1NoLock ==
    /\ pub_pc = "lock1"
    /\ pub_pc' = "read_connected"
    /\ UNCHANGED <<bp, state, lock, df, mainVars, idx, payload, connected, result_rc, pub_timer,
                   ticks, publish_calls, last_pub, written, conn_reads, unacked, netVars,
                   rdVars>>

\* with _state_lock: entered before the flag is read
PubAcquire1 ==
    /\ pub_pc = "lock1"
    /\ lock = "free"
    /\ lock' = "pub"
    /\ pub_pc' = "read_connected"
    /\ UNCHANGED <<bp, state, df, mainVars, idx, payload, connected, result_rc, pub_timer, ticks,
                   publish_calls, last_pub, written, conn_reads, unacked, netVars, rdVars>>

\* the flag read without leaving the with block
PubReadConnectedKeepLock ==
    /\ pub_pc = "read_connected"
    /\ connected' = state.mqtt_connected
    /\ conn_reads' = IF state.mqtt_connected THEN conn_reads + 1 ELSE conn_reads
    /\ pub_pc' = "branch"
    /\ UNCHANGED <<bp, state, lock, df, mainVars, idx, payload, result_rc, pub_timer, ticks,
                   publish_calls, last_pub, written, unacked, netVars, rdVars>>

\* connected = _state["mqtt_connected"]; the lock is released
PubReadConnected ==
    /\ pub_pc = "read_connected"
    /\ connected' = state.mqtt_connected
    /\ conn_reads' = IF state.mqtt_connected THEN conn_reads + 1 ELSE conn_reads
    /\ lock' = "free"
    /\ pub_pc' = "branch"
    /\ UNCHANGED <<bp, state, df, mainVars, idx, payload, result_rc, pub_timer, ticks,
                   publish_calls, last_pub, written, unacked, netVars, rdVars>>

\* publish entered without looking at the flag
PubPublishCallAlways ==
    /\ pub_pc = "branch"
    /\ publish_calls' = publish_calls + 1
    /\ last_pub' = [tick |-> ticks, idx |-> idx]
    /\ unacked' = unacked + 1
    /\ pub_pc' = "publish"
    /\ UNCHANGED <<bp, state, lock, df, mainVars, idx, payload, connected, result_rc, pub_timer,
                   ticks, written, conn_reads, netVars, rdVars>>

\* if connected: mqtt_client.publish(MQTT_TOPIC, json_str, qos=1) is entered;
\* the client queues the message until the broker acknowledges it
PubPublishCall ==
    /\ pub_pc = "branch"
    /\ connected
    /\ publish_calls' = publish_calls + 1
    /\ last_pub' = [tick |-> ticks, idx |-> idx]
    /\ unacked' = unacked + 1
    /\ pub_pc' = "publish"
    /\ UNCHANGED <<bp, state, lock, df, mainVars, idx, payload, connected, result_rc, pub_timer,
                   ticks, written, conn_reads, netVars, rdVars>>

\* a failed publish tried again
PubPublishReturnRetry ==
    /\ pub_pc = "publish"
    /\ \E rc \in {MQTT_ERR_SUCCESS, MQTT_ERR_NO_CONN} :
        /\ result_rc' = rc
        /\ pub_pc' = IF rc = MQTT_ERR_SUCCESS THEN "lock2" ELSE "branch"
    /\ UNCHANGED <<bp, state, lock, df, mainVars, idx, payload, connected, pub_timer, ticks,
                   publish_calls, last_pub, written, conn_reads, unacked, netVars, rdVars>>

\* publish returns; result.rc is logged, whatever it is
PubPublishReturn ==
    /\ pub_pc = "publish"
    /\ \E rc \in {MQTT_ERR_SUCCESS, MQTT_ERR_NO_CONN} : result_rc' = rc
    /\ pub_pc' = "lock2"
    /\ UNCHANGED <<bp, state, lock, df, mainVars, idx, payload, connected, pub_timer, ticks,
                   publish_calls, last_pub, written, conn_reads, unacked, netVars, rdVars>>

\* the loop connecting by itself when it finds the broker not connected
PubSkipReconnect ==
    /\ pub_pc = "branch"
    /\ ~connected
    /\ \E outcome \in {"ok", "OSError"} : last_attempt' = outcome
    /\ pub_pc' = "lock2"
    /\ UNCHANGED <<bp, state, lock, df, main_pc, main_timer, idx, payload, connected, result_rc,
                   pub_timer, ticks, publish_calls, last_pub, written, conn_reads, unacked,
                   netVars, rdVars>>

\* else: "Broker not connected - skipping row"
PubSkip ==
    /\ pub_pc = "branch"
    /\ ~connected
    /\ pub_pc' = "lock2"
    /\ UNCHANGED <<bp, state, lock, df, mainVars, idx, payload, connected, result_rc, pub_timer,
                   ticks, publish_calls, last_pub, written, conn_reads, unacked, netVars,
                   rdVars>>

PubAcquire2 ==
    /\ pub_pc = "lock2"
    /\ lock = "free"
    /\ lock' = "pub"
    /\ pub_pc' = "write_payload"
    /\ UNCHANGED <<bp, state, df, mainVars, idx, payload, connected, result_rc, pub_timer, ticks,
                   publish_calls, last_pub, written, conn_reads, unacked, netVars, rdVars>>

\* _state["last_payload"] = payload
PubWritePayload ==
    /\ pub_pc = "write_payload"
    /\ state' = [state EXCEPT !.last_payload = payload]
    /\ pub_pc' = "write_index"
    /\ UNCHANGED <<bp, lock, df, mainVars, idx, payload, connected, result_rc, pub_timer, ticks,
                   publish_calls, last_pub, written, conn_reads, unacked, netVars, rdVars>>

\* the snapshot update marking the broker as not connected after a failed
\* publish
PubWriteIndexMarksDown ==
    /\ pub_pc = "write_index"
    /\ state' = [state EXCEPT !.row_index = RowIndexOf(idx),
                              !.mqtt_connected = IF result_rc = MQTT_ERR_SUCCESS THEN @
                                                 ELSE FALSE]
    /\ written' = written \cup {<<payload, RowIndexOf(idx)>>}
    /\ lock' = "free"
    /\ pub_pc' = "advance"
    /\ UNCHANGED <<bp, df, mainVars, idx, payload, connected, result_rc, pub_timer, ticks,
                   publish_calls, last_pub, conn_reads, unacked, netVars, rdVars>>

\* _state["row_index"] = idx + 1; the lock is released
PubWriteIndex ==
    /\ pub_pc = "write_index"
    /\ state' = [state EXCEPT !.row_index = RowIndexOf(idx)]
    /\ written' = written \cup {<<payload, RowIndexOf(idx)>>}
    /\ lock' = "free"
    /\ pub_pc' = "advance"
    /\ UNCHANGED <<bp, df, mainVars, idx, payload, connected, result_rc, pub_timer, ticks,
                   publish_calls, last_pub, conn_reads, unacked, netVars, rdVars>>

\* the cursor left where it is at the end of a tick
PubAdvanceStay ==
    /\ pub_pc = "advance"
    /\ idx' = idx
    /\ ticks' = ticks + 1
    /\ connected' = FALSE
    /\ result_rc' = MQTT_ERR_SUCCESS
    /\ pub_timer' = PUBLISH_INTERVAL
    /\ pub_pc' = "sleep"
    /\ UNCHANGED <<bp, state, lock, df, mainVars, payload, publish_calls, last_pub, written,
                   conn_reads, unacked, netVars, rdVars>>

\* idx = (idx + 1) % total; time.sleep(PUBLISH_INTERVAL) begins: the tick is
\* complete, and the locals connected and result are not read again
PubAdvance ==
    /\ pub_pc = "advance"
    /\ idx' = NextIdx(idx, total)
    /\ ticks' = ticks + 1
    /\ connected' = FALSE
    /\ result_rc' = MQTT_ERR_SUCCESS
    /\ pub_timer' = PUBLISH_INTERVAL
    /\ pub_pc' = "sleep"
    /\ UNCHANGED <<bp, state, lock, df, mainVars, payload, publish_calls, last_pub, written,
                   conn_reads, unacked, netVars, rdVars>>

\* time.sleep(PUBLISH_INTERVAL) is over: the next iteration of the while loop
PubWake ==
    /\ pub_pc = "sleep"
    /\ pub_timer = 0
    /\ pub_pc' = "fetch"
    /\ UNCHANGED <<bp, state, lock, df, mainVars, idx, payload, connected, result_rc, pub_timer,
                   ticks, publish_calls, last_pub, written, conn_reads, unacked, netVars,
                   rdVars>>

\* ---------------------------------------------------------------------------
\* MQTT callbacks, run one at a time by the network thread that loop_start
\* creates
\* ---------------------------------------------------------------------------
\* reason codes of a CONNACK: 0 is success, 5 is "not authorized"
ReasonCodes == {0, 5}

\* the flag set whatever the reason code
OnConnectFlagAlways(rc) == TRUE

\* if reason_code == 0: _state["mqtt_connected"] = True, else False
OnConnectFlag(rc) == rc = 0

\* the error left in place on success
OnConnectErrorKept(rc) == IF rc = 0 THEN state.last_error ELSE PyStr("Connect failed: rc=5")

\* _state["last_error"] = None, or f"Connect failed: rc={reason_code}"
OnConnectError(rc) == IF rc = 0 THEN None ELSE PyStr("Connect failed: rc=5")

\* the counter reset together with the flag
OnDisconnectStateReset(st) == [st EXCEPT !.mqtt_connected = FALSE, !.publish_count = 0]

\* _state["mqtt_connected"] = False
OnDisconnectState(st) == [st EXCEPT !.mqtt_connected = FALSE]

\* the counter assigned instead of incremented
OnPublishStateAssign(st) == [st EXCEPT !.publish_count = 1]

\* _state["publish_count"] += 1
OnPublishState(st) == [st EXCEPT !.publish_count = @ + 1]

\* _on_connect is called and takes the lock
OnConnectEnter ==
    /\ net_pc = "idle"
    /\ lock = "free"
    /\ \E rc \in ReasonCodes : reason_code' = rc
    /\ lock' = "net"
    /\ net_pc' = "on_connect_flag"
    /\ UNCHANGED <<bp, state, df, mainVars, pubVars, unacked, acks, rdVars>>

\* the counter reset when a connection is made
OnConnectSetFlagResetsCount ==
    /\ net_pc = "on_connect_flag"
    /\ state' = [state EXCEPT !.mqtt_connected = OnConnectFlag(reason_code),
                              !.publish_count = 0]
    /\ net_pc' = "on_connect_error"
    /\ UNCHANGED <<bp, lock, df, mainVars, pubVars, unacked, reason_code, acks, rdVars>>

\* the first assignment of either branch: _state["mqtt_connected"]
OnConnectSetFlag ==
    /\ net_pc = "on_connect_flag"
    /\ state' = [state EXCEPT !.mqtt_connected = OnConnectFlag(reason_code)]
    /\ net_pc' = "on_connect_error"
    /\ UNCHANGED <<bp, lock, df, mainVars, pubVars, unacked, reason_code, acks, rdVars>>

\* the second assignment; the lock is released and the callback returns
OnConnectSetError ==
    /\ net_pc = "on_connect_error"
    /\ state' = [state EXCEPT !.last_error = OnConnectError(reason_code)]
    /\ lock' = "free"
    /\ reason_code' = 0
    /\ net_pc' = "idle"
    /\ UNCHANGED <<bp, df, mainVars, pubVars, unacked, acks, rdVars>>

\* _on_disconnect is called and takes the lock
OnDisconnectEnter ==
    /\ net_pc = "idle"
    /\ lock = "free"
    /\ lock' = "net"
    /\ net_pc' = "on_disconnect"
    /\ UNCHANGED <<bp, state, df, mainVars, pubVars, unacked, reason_code, acks, rdVars>>

OnDisconnectSet ==
    /\ net_pc = "on_disconnect"
    /\ state' = OnDisconnectState(state)
    /\ lock' = "free"
    /\ net_pc' = "idle"
    /\ UNCHANGED <<bp, df, mainVars, pubVars, unacked, reason_code, acks, rdVars>>

\* the broker acknowledges a published message: _on_publish is called and
\* takes the lock
OnPublishEnter ==
    /\ net_pc = "idle"
    /\ unacked > 0
    /\ lock = "free"
    /\ unacked' = unacked - 1
    /\ lock' = "net"
    /\ net_pc' = "on_publish"
    /\ UNCHANGED <<bp, state, df, mainVars, pubVars, reason_code, acks, rdVars>>

OnPublishIncrement ==
    /\ net_pc = "on_publish"
    /\ state' = OnPublishState(state)
    /\ acks' = acks + 1
    /\ lock' = "free"
    /\ net_pc' = "idle"
    /\ UNCHANGED <<bp, df, mainVars, pubVars, unacked, reason_code, rdVars>>

\* ---------------------------------------------------------------------------
\* Flask requests: status and api_status
\* ---------------------------------------------------------------------------
\* status entered without taking the lock
StatusEnterNoLock ==
    /\ main_pc = "serve"
    /\ rd_pc = "idle"
    /\ rd_pc' = "status_payload"
    /\ UNCHANGED <<bp, state, lock, df, mainVars, pubVars, unacked, netVars, rd>>

\* status is called and takes the lock
StatusEnter ==
    /\ main_pc = "serve"
    /\ rd_pc = "idle"
    /\ lock = "free"
    /\ lock' = "rd"
    /\ rd_pc' = "status_payload"
    /\ UNCHANGED <<bp, state, df, mainVars, pubVars, unacked, netVars, rd>>

\* payload = _state["last_payload"]
StatusReadPayload ==
    /\ rd_pc = "status_payload"
    /\ rd' = [rd EXCEPT !.last_payload = state.last_payload]
    /\ rd_pc' = "status_row_index"
    /\ UNCHANGED <<bp, state, lock, df, mainVars, pubVars, unacked, netVars>>

\* row_index = _state["row_index"]
StatusReadRowIndex ==
    /\ rd_pc = "status_row_index"
    /\ rd' = [rd EXCEPT !.row_index = state.row_index]
    /\ rd_pc' = "status_total_rows"
    /\ UNCHANGED <<bp, state, lock, df, mainVars, pubVars, unacked, netVars>>

\* total_rows = _state["total_rows"]; the lock is released and the page rendered
StatusReadTotalRows ==
    /\ rd_pc = "status_total_rows"
    /\ rd' = [rd EXCEPT !.total_rows = state.total_rows]
    /\ lock' = "free"
    /\ rd_pc' = "returned"
    /\ UNCHANGED <<bp, state, df, mainVars, pubVars, unacked, netVars>>

\* api_status is called and takes the lock
ApiStatusEnter ==
    /\ main_pc = "serve"
    /\ rd_pc = "idle"
    /\ lock = "free"
    /\ lock' = "rd"
    /\ rd_pc' = "api_payload"
    /\ UNCHANGED <<bp, state, df, mainVars, pubVars, unacked, netVars, rd>>

\* "last_payload": _state["last_payload"]
ApiReadPayload ==
    /\ rd_pc = "api_payload"
    /\ rd' = [rd EXCEPT !.last_payload = state.last_payload]
    /\ rd_pc' = "api_row_index"
    /\ UNCHANGED <<bp, state, lock, df, mainVars, pubVars, unacked, netVars>>

\* "row_index": _state["row_index"]
ApiReadRowIndex ==
    /\ rd_pc = "api_row_index"
    /\ rd' = [rd EXCEPT !.row_index = state.row_index]
    /\ rd_pc' = "api_rest"
    /\ UNCHANGED <<bp, state, lock, df, mainVars, pubVars, unacked, netVars>>

\* the remaining items of the dict: total_rows, mqtt_connected, publish_count,
\* last_error; the lock is released and the response built
ApiReadRest ==
    /\ rd_pc = "api_rest"
    /\ rd' = [rd EXCEPT !.total_rows = state.total_rows,
                        !.mqtt_connected = state.mqtt_connected,
                        !.publish_count = state.publish_count,
                        !.last_error = state.last_error]
    /\ lock' = "free"
    /\ rd_pc' = "returned"
    /\ UNCHANGED <<bp, state, df, mainVars, pubVars, unacked, netVars>>

\* the response is sent; the request thread is ready for the next request
RequestDone ==
    /\ rd_pc = "returned"
    /\ rd' = NoRead
    /\ rd_pc' = "idle"
    /\ UNCHANGED <<bp, state, lock, df, mainVars, pubVars, unacked, netVars>>

\* ---------------------------------------------------------------------------
\* Specification
\* ---------------------------------------------------------------------------
Main ==
    \/ MainLoad
    \/ MainLoadError
    \/ MainConnectOk
    \/ MainConnectFail
    \/ MainExceptAcquire
    \/ MainRecordError
    \/ MainWake
    \/ MainLoopStart
    \/ MainStartThread

Pub ==
    \/ PubFetch
    \/ PubAcquire1
    \/ PubReadConnected
    \/ PubPublishCall
    \/ PubPublishReturn
    \/ PubSkip
    \/ PubAcquire2
    \/ PubWritePayload
    \/ PubWriteIndex
    \/ PubAdvance
    \/ PubWake

\* the steps that complete a callback which has begun
NetBody ==
    \/ OnConnectSetFlag
    \/ OnConnectSetError
    \/ OnDisconnectSet
    \/ OnPublishIncrement

Net ==
    \/ OnConnectEnter
    \/ OnDisconnectEnter
    \/ OnPublishEnter
    \/ NetBody

\* the steps that complete a request which has begun
RequestBody ==
    \/ StatusReadPayload
    \/ StatusReadRowIndex
    \/ StatusReadTotalRows
    \/ ApiReadPayload
    \/ ApiReadRowIndex
    \/ ApiReadRest
    \/ RequestDone

Request ==
    \/ StatusEnter
    \/ ApiStatusEnter
    \/ RequestBody

Next ==
    \/ Main
    \/ Pub
    \/ Net
    \/ Request
    \/ TimePasses

\* The start of the process, up to the start of the publisher thread and of
\* the request server: the main thread, the sleeping time and the connection
\* events of the network thread that loop_start has created.
StartupNext ==
    \/ Main
    \/ TimePasses
    \/ OnConnectEnter
    \/ OnConnectSetFlag
    \/ OnConnectSetError
    \/ OnDisconnectEnter
    \/ OnDisconnectSet

\* The main thread runs when it can and time passes.
StartupSpec ==
    /\ Init
    /\ [][StartupNext]_vars
    /\ WF_vars(Main)
    /\ WF_vars(TimePasses)

Spec == Init /\ [][Next]_vars

\* ---------------------------------------------------------------------------
\* build_payload on its own: two calls on one row, each at its own time
\* ---------------------------------------------------------------------------
\* the Timestamp cells tried: column missing, empty cell, a time, a number
TsCells == {Absent, NaN, Text(CsvTime1), Num(15000000)}

\* the numeric cells tried: column missing, empty cell, text, and numbers of
\* seven decimals, among them values next to and on a halfway point
NumCells == {Absent, NaN, Text(Garbage), Num(0), Num(496), Num(1504), Num(2496),
             Num(9512345), Num(12345675), Num(1201234568), Num(0 - 1234565)}

\* a row with cell ts as timestamp and the cells a and b in the numeric columns
TestRow(ts, a, b) ==
    [Timestamp |-> ts, Voltage |-> a, Current |-> b, PowerConsumption |-> a,
     ReactivePower |-> b, PowerFactor |-> a, SolarPower |-> b, WindPower |-> a,
     GridSupply |-> b, VoltageFluctuation |-> b]

TestRows == {TestRow(ts, a, b) : ts \in TsCells, a \in NumCells, b \in NumCells}

procVars == <<state, lock, df, mainVars, pubVars, unacked, netVars, rdVars>>

PayloadInit ==
    /\ ProcessInit
    /\ \E row \in TestRows : bp = [NoCall EXCEPT !.pc = "input", !.row = row]

\* payload = build_payload(row) at time now
BuildFirst ==
    /\ bp.pc = "input"
    /\ \E now \in Clock :
        bp' = [bp EXCEPT !.pc = "once", !.now = now, !.out = build_payload(bp.row, now)]
    /\ UNCHANGED procVars

\* the same call on the same row at time now2
BuildSecond ==
    /\ bp.pc = "once"
    /\ \E now \in Clock :
        bp' = [bp EXCEPT !.pc = "twice", !.now2 = now, !.out2 = build_payload(bp.row, now)]
    /\ UNCHANGED procVars

PayloadNext ==
    \/ BuildFirst
    \/ BuildSecond

PayloadSpec == PayloadInit /\ [][PayloadNext]_vars

\* Every thread that can take a step eventually takes one and time passes;
\* which events the broker and the HTTP clients send is left open.
FairSpec ==
    /\ Spec
    /\ WF_vars(Main)
    /\ WF_vars(Pub)
    /\ WF_vars(NetBody)
    /\ WF_vars(RequestBody)
    /\ WF_vars(TimePasses)

\* ---------------------------------------------------------------------------
\* Properties
\* ---------------------------------------------------------------------------
\* the pair of a finished status / api_status read
ReadPair == <<rd.last_payload, rd.row_index>>

\* C1: the (last_payload, row_index) pair returned by a read is the initial
\* pair (None, 0) or a pair that one tick stored: the payload of row r with
\* the row index written for row r in that tick.
C1_ReadPairConsistent ==
    rd_pc = "returned" =>
        \/ ReadPair = <<None, 0>>
        \/ /\ ReadPair \in written
           /\ rd.row_index \in 1..Len(df)
           /\ \E now \in Clock : rd.last_payload = build_payload(df[rd.row_index], now)

\* a read has returned the pair of the second row while the publisher is
\* between its two writes of the next tick
C1_Witness ==
    /\ rd_pc = "returned"
    /\ rd.row_index = 2
    /\ rd.last_payload # None
    /\ pub_pc = "write_index"

\* C2 as claimed: after N > L completed ticks the stored row_index is N mod L.
C2_RowIndexIsNModL ==
    (pub_pc = "sleep" /\ Len(df) >= 1 /\ ticks > Len(df)) =>
        state.row_index = ticks % Len(df)

\* C2 (amended): after N >= 1 completed ticks the stored row_index is
\* ((N - 1) mod L) + 1: it cycles through 1..L and is never 0 again.
C2_RowIndexAfterTicks ==
    (pub_pc = "sleep" /\ ticks >= 1) =>
        /\ Len(df) >= 1
        /\ state.row_index = ((ticks - 1) % Len(df)) + 1

\* four ticks on a three-row dataset: the index has wrapped to 1
C2_Witness ==
    /\ pub_pc = "sleep"
    /\ Len(df) = 3
    /\ ticks = 4
    /\ state.row_index = 1

\* C3: a tick calls publish exactly once if its locked read of the flag gave
\* True and not at all otherwise; either way it stores its payload and row
\* index and advances the cursor; so publish calls equal the ticks that read
\* True.
C3_PublishOncePerConnectedTick ==
    /\ publish_calls = conn_reads - (IF pub_pc = "branch" /\ connected THEN 1 ELSE 0)
    /\ pub_pc = "advance" =>
        /\ (last_pub.tick = ticks) <=> connected
        /\ state.last_payload = payload
        /\ state.row_index = idx + 1
    /\ (pub_pc = "sleep" /\ Len(df) >= 1) => idx = ticks % Len(df)
    /\ (pub_pc = "sleep" /\ conn_reads = ticks) => publish_calls = ticks

\* a tick that skipped publish has stored its snapshot, after an earlier tick
\* that published
C3_Witness ==
    /\ pub_pc = "advance"
    /\ ~connected
    /\ publish_calls >= 1
    /\ ticks >= 2
    /\ state.row_index = idx + 1

\* C4: a failed publish does not stop the tick: the call is followed by the
\* locked update of the snapshot with this tick's payload and row index, and
\* every publish call belongs to a later tick than the one before it (no
\* second call for a tick whose publish failed).
C4_FailedPublishTickCompletes ==
    /\ [](pub_pc \in {"lock2", "write_payload", "write_index", "advance"} =>
            (result_rc = MQTT_ERR_SUCCESS \/ last_pub.tick = ticks))
    /\ []((pub_pc = "advance" /\ result_rc # MQTT_ERR_SUCCESS) =>
            /\ state.last_payload = payload
            /\ state.row_index = idx + 1
            /\ last_pub = [tick |-> ticks, idx |-> idx])
    /\ [][(pub_pc = "publish" /\ pub_pc' # "publish") =>
            (pub_pc' = "lock2" /\ publish_calls' = publish_calls)]_vars
    /\ [][publish_calls' # publish_calls =>
            /\ publish_calls' = publish_calls + 1
            /\ last_pub'.tick > last_pub.tick
            /\ last_pub'.tick = ticks
            /\ last_pub'.idx = idx]_vars
    /\ [][(pub_pc = "advance" /\ pub_pc' # "advance") =>
            (pub_pc' = "sleep" /\ ticks' = ticks + 1 /\ idx' = (idx + 1) % Len(df))]_vars

\* the tick whose publish failed has stored its snapshot
C4_Witness ==
    /\ pub_pc = "advance"
    /\ result_rc = MQTT_ERR_NO_CONN
    /\ last_pub.tick = ticks
    /\ ticks >= 1
    /\ state.last_payload = payload

\* C5: on a dataset of L >= 1 rows the cursor stays in 0..L-1, the row fetch
\* never raises, and the cursor of the n-th tick is n mod L.
C5_CursorInBounds ==
    (Len(df) >= 1 /\ pub_pc # "not_started") =>
        /\ idx \in 0..(Len(df) - 1)
        /\ idx = ticks % Len(df)
        /\ pub_pc # "IndexError"

\* the row of the fourth tick on three rows has been fetched: row 0 again
C5_Witness ==
    /\ Len(df) = 3
    /\ ticks = 3
    /\ idx = 0
    /\ pub_pc = "lock1"

\* _connect_mqtt has returned
ConnectReturned == main_pc \in {"connected", "serve"}

\* C6: _connect_mqtt returns only after an attempt that succeeded; a failed
\* attempt is recorded in last_error, followed by a sleep of exactly 5 units
\* and then by a new attempt, never by a return or an exception; a successful
\* attempt is followed by the return.
C6_ConnectRetriesUntilSuccess ==
    /\ [](ConnectReturned => last_attempt = "ok")
    /\ [](main_pc \in {"load", "load_error", "connect", "except", "record_error",
                       "sleep", "loop_start", "connected", "serve"})
    /\ [](main_pc = "sleep" =>
            /\ last_attempt = "OSError"
            /\ state.last_error = PyStr("OSError")
            /\ main_timer \in 0..5)
    /\ [][(last_attempt' = "OSError" /\ main_pc' # main_pc) =>
            main_pc' \in {"except", "record_error", "sleep", "connect"}]_vars
    /\ [][(main_pc = "record_error" /\ main_pc' # main_pc) =>
            /\ main_pc' = "sleep"
            /\ main_timer' = 5
            /\ state'.last_error = PyStr("OSError")]_vars
    /\ [][(main_pc = "sleep" /\ main_pc' # main_pc) =>
            (main_timer = 0 /\ main_pc' = "connect")]_vars
    /\ [][(main_pc = "sleep" /\ main_timer' # main_timer) =>
            main_timer' = main_timer - 1]_vars
    /\ (main_pc = "except") ~> (main_pc = "connect")
    /\ (last_attempt = "ok") ~> ConnectReturned

\* _connect_mqtt has returned after at least one failed attempt
C6_Witness ==
    /\ main_pc = "connected"
    /\ last_attempt = "ok"
    /\ state.last_error = PyStr("OSError")

\* C7 as claimed: every on-connect callback ends with connected = True and
\* last_error = None.
C7_OnConnectAlwaysConnected ==
    [][(net_pc = "on_connect_error" /\ net_pc' = "idle") =>
        (state'.mqtt_connected /\ state'.last_error = None)]_vars

\* C7 (amended): every on-connect callback whose reason code is 0 ends with
\* connected = True and last_error = None, whatever they were before.
C7_OnConnectSuccess ==
    [][(net_pc = "on_connect_error" /\ net_pc' = "idle" /\ reason_code = 0) =>
        (state'.mqtt_connected /\ state'.last_error = None)]_vars

\* an on-connect callback with reason code 0 has set the flag and is about to
\* clear the error a refused connection left
C7_Witness ==
    /\ net_pc = "on_connect_error"
    /\ reason_code = 0
    /\ state.mqtt_connected
    /\ state.last_error = PyStr("Connect failed: rc=5")

\* C8: the on-disconnect callback sets connected = False, changes no other
\* field of the shared state and does not touch the connect routine.
C8_OnDisconnectFrame ==
    /\ [][(net_pc = "idle" /\ net_pc' = "on_disconnect") =>
            (state' = state /\ main_pc' = main_pc /\ last_attempt' = last_attempt)]_vars
    /\ [][(net_pc = "on_disconnect" /\ net_pc' = "idle") =>
            /\ ~state'.mqtt_connected
            /\ state'.last_error = state.last_error
            /\ state'.publish_count = state.publish_count
            /\ state'.last_payload = state.last_payload
            /\ state'.row_index = state.row_index
            /\ state'.total_rows = state.total_rows
            /\ main_pc' = main_pc
            /\ last_attempt' = last_attempt]_vars

\* an on-disconnect callback is about to clear the flag of a connected state
\* that has counted an acknowledgement and stored a payload
C8_Witness ==
    /\ net_pc = "on_disconnect"
    /\ state.mqtt_connected
    /\ state.publish_count >= 1
    /\ state.last_payload # None

\* C9: an on-publish callback adds exactly 1 to publish_count and changes no
\* other field; publish_count always equals the number of callbacks completed.
C9_PublishCountExact ==
    /\ [](state.publish_count = acks)
    /\ [][(net_pc = "on_publish" /\ net_pc' = "idle") =>
            state' = [state EXCEPT !.publish_count = state.publish_count + 1]]_vars
    /\ [][state'.publish_count # state.publish_count =>
            (net_pc = "on_publish" /\ acks' = acks + 1)]_vars

\* two acknowledgements counted while the publisher is inside a publish call
C9_Witness ==
    /\ acks = 2
    /\ state.publish_count = 2
    /\ pub_pc = "publish"

\* C10: the lock is not held by the publisher during publish or its sleep,
\* nor by the connect routine during a connection attempt or its back-off.
C10_NoLockAcrossIO ==
    /\ pub_pc \in {"publish", "sleep"} => lock # "pub"
    /\ main_pc \in {"connect", "sleep"} => lock # "main"

\* a status read holds the lock while the publisher is inside publish
C10_Witness ==
    /\ pub_pc = "publish"
    /\ lock = "rd"

\* C11: when the dataset could not be loaded or has no row, startup has
\* failed and the replay loop is not started: no row fetch is attempted.
C11_EmptyDatasetNeverStartsLoop ==
    (main_pc # "load" /\ Len(df) = 0) =>
        /\ main_pc = "load_error"
        /\ pub_pc = "not_started"

\* C12, its safety part: the replay loop, once started, is never in a
\* terminal state (it is fetching, publishing, storing or sleeping).
C12_ReplayLoopNeverTerminates ==
    pub_pc # "not_started" =>
        pub_pc \in {"fetch", "lock1", "read_connected", "branch", "publish", "lock2",
                    "write_payload", "write_index", "advance", "sleep"}

\* C13: _connect_mqtt is invoked once, at startup, and has returned before
\* the replay loop starts: no publisher step happens before the return, a
\* connection attempt is made only by the main thread inside _connect_mqtt,
\* the main thread never goes back into it, and no step of the publisher
\* thread makes an attempt or moves the main thread.
C13_ConnectOnceBeforeLoop ==
    /\ [](pub_pc # "not_started" => (main_pc = "serve" /\ last_attempt = "ok"))
    /\ [][ConnectReturned => ConnectReturned']_vars
    /\ [][(main_pc' = "connect" /\ main_pc # "connect") => main_pc \in {"load", "sleep"}]_vars
    /\ [][last_attempt' # last_attempt => main_pc = "connect"]_vars
    /\ [][(pub_pc # "not_started" /\ pub_pc' # pub_pc) => UNCHANGED <<main_pc, last_attempt>>]_vars

\* the replay loop has found the broker not connected and skipped the publish
C13_Witness ==
    /\ pub_pc = "lock2"
    /\ ~connected
    /\ last_pub.tick # ticks
    /\ ~state.mqtt_connected
    /\ main_pc = "serve"

\* the three fields of the connection state
ConnFields(st) == <<st.mqtt_connected, st.last_error, st.publish_count>>

\* C14: the return of a publish call, with either result, leaves the shared
\* state as it was; no step of the publisher thread changes mqtt_connected,
\* last_error or publish_count; they change only in _connect_mqtt's except
\* block and in the three callbacks.
C14_PublishLeavesConnectionState ==
    /\ [][(pub_pc = "publish" /\ pub_pc' # pub_pc) => state' = state]_vars
    /\ [][pub_pc' # pub_pc => ConnFields(state') = ConnFields(state)]_vars
    /\ [][ConnFields(state') # ConnFields(state) =>
            \/ main_pc = "record_error" /\ main_pc' = "sleep"
            \/ /\ net_pc \in {"on_connect_flag", "on_connect_error", "on_disconnect",
                              "on_publish"}
               /\ net_pc' # net_pc]_vars

\* a publish call has failed in a tick while the shared flag still says
\* connected
C14_Witness ==
    /\ pub_pc = "lock2"
    /\ result_rc = MQTT_ERR_NO_CONN
    /\ last_pub.tick = ticks
    /\ state.mqtt_connected

\* the nine numeric payload fields: group, name, source column, decimals
PayloadFields ==
    {[g |-> "grid_state", f |-> "voltage_v", col |-> COL_MAP.voltage, nd |-> 4],
     [g |-> "grid_state", f |-> "current_a", col |-> COL_MAP.current, nd |-> 4],
     [g |-> "grid_state", f |-> "power_factor", col |-> COL_MAP.power_factor, nd |-> 6],
     [g |-> "grid_state", f |-> "voltage_fluctuation", col |-> COL_MAP.v_fluct, nd |-> 6],
     [g |-> "energy_flow", f |-> "load_kw", col |-> COL_MAP.power_cons, nd |-> 4],
     [g |-> "energy_flow", f |-> "solar_gen_kw", col |-> COL_MAP.solar, nd |-> 4],
     [g |-> "energy_flow", f |-> "wind_gen_kw", col |-> COL_MAP.wind, nd |-> 4],
     [g |-> "energy_flow", f |-> "grid_supply_kw", col |-> COL_MAP.grid_supply, nd |-> 4],
     [g |-> "energy_flow", f |-> "reactive_power_kvar", col |-> COL_MAP.react_power, nd |-> 4]}

\* the row's Timestamp cell holds a non-empty value
TimestampPresent(row) ==
    \/ row[COL_MAP.timestamp].kind = "num"
    \/ row[COL_MAP.timestamp].kind = "text" /\ row[COL_MAP.timestamp].s # <<>>

\* C15 as claimed: two calls of build_payload on the identical row, at any two
\* times, return identical payloads, header timestamp included.
C15_BuildPayloadDeterministic ==
    bp.pc = "twice" => bp.out = bp.out2

\* C15 (amended): two calls on the identical row return identical grid_state,
\* energy_flow, asset_id and status; the whole payloads are identical when the
\* row holds a non-empty timestamp or the two calls read the same clock value.
C15_DeterministicUpToClock ==
    bp.pc = "twice" =>
        /\ bp.out.grid_state = bp.out2.grid_state
        /\ bp.out.energy_flow = bp.out2.energy_flow
        /\ bp.out.header.asset_id = bp.out2.header.asset_id
        /\ bp.out.header.status = bp.out2.header.status
        /\ (TimestampPresent(bp.row) \/ bp.now = bp.now2) => bp.out = bp.out2

\* two calls at different times on a row with its own timestamp
C15_Witness ==
    /\ bp.pc = "twice"
    /\ bp.row[COL_MAP.timestamp] = Text(CsvTime1)
    /\ bp.now # bp.now2
    /\ bp.out.header.timestamp = CsvTime1
    /\ bp.out2.header.timestamp = CsvTime1

\* C16: build_payload completes on every row; a field whose column is absent,
\* NaN or not a number is 0.0, and every other field holds the value of its
\* own column, rounded by the extractor and then to the field's decimals.
C16_MissingFieldDefaults ==
    bp.pc # "input" =>
        /\ DOMAIN bp.out = {"header", "grid_state", "energy_flow"}
        /\ \A fs \in PayloadFields :
            LET cell == bp.row[fs.col]
            IN /\ cell.kind # "num" => bp.out[fs.g][fs.f] = 0
               /\ cell.kind = "num" => bp.out[fs.g][fs.f] = Round(Round(cell.n, 6), fs.nd)

\* a row without the voltage column, with a current
C16_Witness ==
    /\ bp.pc = "once"
    /\ bp.row[COL_MAP.voltage] = Absent
    /\ bp.row[COL_MAP.current] = Num(1201234568)
    /\ bp.out.grid_state.voltage_v = 0
    /\ bp.out.grid_state.current_a = 1201235000
    /\ bp.out.energy_flow.load_kw = 0

\* the value of a digit character
DigitValue(c) == CHOOSE d \in 0..9 : DigitChars[d + 1] = c

\* the number written at positions i and i + 1 of s
TwoDigits(s, i) == 10 * DigitValue(s[i]) + DigitValue(s[i + 1])

\* s has the form YYYY-MM-DDTHH:MM:SSZ
IsUtcPattern(s) ==
    /\ Len(s) = 20
    /\ \A i \in 1..20 :
        IF i \in {5, 8} THEN s[i] = "-"
        ELSE IF i = 11 THEN s[i] = "T"
        ELSE IF i \in {14, 17} THEN s[i] = ":"
        ELSE IF i = 20 THEN s[i] = "Z"
        ELSE \E d \in 1..10 : s[i] = DigitChars[d]

\* s is the time of day t
IsTimeOfDay(s, t) ==
    3600 * TwoDigits(s, 12) + 60 * TwoDigits(s, 15) + TwoDigits(s, 18) = t

\* C17: header.timestamp is the row's own timestamp string when the row holds
\* a non-empty one; when the column is absent, NaN or empty it is the UTC time
\* of the call in the form YYYY-MM-DDTHH:MM:SSZ; it is never empty.
C17_TimestampFallback ==
    bp.pc # "input" =>
        LET cell == bp.row[COL_MAP.timestamp]
            h == bp.out.header.timestamp
        IN /\ (cell.kind = "text" /\ cell.s # <<>>) => h = cell.s
           /\ cell.kind = "num" => h = FloatStr(cell.n)
           /\ ~TimestampPresent(bp.row) => (IsUtcPattern(h) /\ IsTimeOfDay(h, bp.now))
           /\ h # <<>>

\* a row whose timestamp is NaN, built at 12:34:56 UTC
C17_Witness ==
    /\ bp.pc = "once"
    /\ bp.row[COL_MAP.timestamp] = NaN
    /\ bp.now = 45296
    /\ bp.out.header.timestamp =
        <<"2", "0", "2", "6", "-", "0", "1", "-", "0", "1", "T", "1", "2", ":", "3", "4", ":",
          "5", "6", "Z">>

\* C18: every numeric field equals the row's source value rounded once to
\* the field's decimals (6 for power_factor and voltage_fluctuation, 4 for
\* the others).
C18_RoundedOnce ==
    bp.pc # "input" =>
        \A fs \in PayloadFields :
            LET cell == bp.row[fs.col]
            IN cell.kind = "num" => bp.out[fs.g][fs.f] = Round(cell.n, fs.nd)

\* C19: an on-connect callback with a non-zero reason code ends with
\* connected = False and last_error = "Connect failed: rc=<code>"; connected
\* becomes True, and last_error becomes None, only in a callback whose reason
\* code is 0.
C19_RefusedConnect ==
    /\ [][(net_pc = "on_connect_error" /\ net_pc' = "idle" /\ reason_code # 0) =>
            /\ ~state'.mqtt_connected
            /\ state'.last_error # None
            /\ state'.last_error = PyStr("Connect failed: rc=5")]_vars
    /\ [][(~state.mqtt_connected /\ state'.mqtt_connected) =>
            (net_pc = "on_connect_flag" /\ reason_code = 0)]_vars
    /\ [][(state.last_error # None /\ state'.last_error = None) =>
            (net_pc = "on_connect_error" /\ reason_code = 0)]_vars

\* a refused connection has been recorded and the callback has returned
C19_Witness ==
    /\ net_pc = "idle"
    /\ lock = "free"
    /\ ~state.mqtt_connected
    /\ state.last_error = PyStr("Connect failed: rc=5")

\* C20 as claimed: in every reachable state connected = True implies
\* last_error = None.
C20_ConnectedImpliesNoError ==
    state.mqtt_connected => state.last_error = None

\* C20 (amended): connected = True implies last_error = None in every state
\* except inside _on_connect's critical section, between its two assignments;
\* every reader holding the lock sees the implication; connected is False
\* until _connect_mqtt has returned, no callback runs before; and last_error
\* is written non-null only with connected False.
C20_ConnectedImpliesNoErrorOutsideCallback ==
    /\ []((state.mqtt_connected /\ ~(net_pc = "on_connect_error" /\ reason_code = 0)) =>
            state.last_error = None)
    /\ [](rd.mqtt_connected => rd.last_error = None)
    /\ [](~ConnectReturned => (~state.mqtt_connected /\ net_pc = "off"))
    /\ [][(state'.last_error # state.last_error /\ state'.last_error # None) =>
            ~state'.mqtt_connected]_vars

\* a reader saw the error of a refused connection; the broker has accepted
\* the connection since
C20_Witness ==
    /\ rd_pc = "returned"
    /\ ~rd.mqtt_connected
    /\ rd.last_error = PyStr("Connect failed: rc=5")
    /\ net_pc = "idle"
    /\ state.mqtt_connected
    /\ state.last_error = None

\* C21 as claimed: whenever the publisher thread enters publish, the shared
\* flag mqtt_connected is True at that moment.
C21_ConnectedAtPublishCall ==
    [][(pub_pc = "branch" /\ pub_pc' = "publish") => state.mqtt_connected]_vars

\* C21 (amended): whenever the publisher thread enters publish, the flag was
\* True when the tick read it under the lock: the read is made with the lock
\* held and copies the shared flag, the copy does not change until the call,
\* and the call is made only with a True copy. The shared flag itself may
\* have changed since the read.
C21_ConnectedAtLockedRead ==
    /\ [][(pub_pc = "read_connected" /\ pub_pc' # pub_pc) =>
            (lock = "pub" /\ connected' = state.mqtt_connected /\ pub_pc' = "branch")]_vars
    /\ [][pub_pc = "branch" => connected' = connected]_vars
    /\ [][(pub_pc = "branch" /\ pub_pc' = "publish") => connected]_vars
    /\ [](pub_pc = "publish" => connected)

\* an on-disconnect callback has run between the tick's read of the flag and
\* its publish call
C21_Witness ==
    /\ pub_pc = "publish"
    /\ connected
    /\ last_pub.tick = ticks
    /\ ~state.mqtt_connected
    /\ unacked = 1
    /\ result_rc = MQTT_ERR_SUCCESS

\* C22: until _connect_mqtt has returned no replay tick runs: the publisher
\* thread is not started, last_payload is None, row_index is 0, and after the
\* load only last_error changes in the shared state; the thread starts only
\* after the attempt that succeeded; from then on a tick that finds the broker
\* not connected still stores its payload and row index and advances.
C22_SnapshotFrozenUntilConnected ==
    /\ [](~ConnectReturned =>
            /\ pub_pc = "not_started"
            /\ ticks = 0
            /\ state.last_payload = None
            /\ state.row_index = 0)
    /\ [][(main_pc \notin {"load", "connected", "serve"} /\ state' # state) =>
            /\ state' = [state EXCEPT !.last_error = state'.last_error]
            /\ state'.last_error # None]_vars
    /\ [][(pub_pc = "not_started" /\ pub_pc' # pub_pc) =>
            (main_pc = "connected" /\ last_attempt = "ok")]_vars
    /\ [][(pub_pc = "branch" /\ ~connected /\ pub_pc' # pub_pc) => pub_pc' = "lock2"]_vars
    /\ []((pub_pc = "advance" /\ ~connected) =>
            /\ state.last_payload = payload
            /\ state.last_payload # None
            /\ state.row_index = idx + 1)
    /\ [][(pub_pc = "advance" /\ ~connected /\ pub_pc' # pub_pc) => ticks' = ticks + 1]_vars

\* after a failed first attempt, two ticks have stored their snapshot and not
\* one of them found the broker connected
C22_Witness ==
    /\ state.last_error = PyStr("OSError")
    /\ ~state.mqtt_connected
    /\ publish_calls = 0
    /\ ticks = 1
    /\ pub_pc = "advance"
    /\ state.row_index = 2
    /\ state.last_payload = payload

\* the pass over the dataset that tick t belongs to
PassOf(t) == t \div Len(df)

\* C23: the rows handed to publish appear in cursor order: the n-th tick is at
\* row n mod L, a publish call hands over the row of the current tick, which
\* is a later tick than that of the call before (at most one call per tick),
\* a tick is without a call only if it read connected = False, and two calls
\* within one pass over the dataset are for increasing rows.
C23_PublishInCursorOrder ==
    /\ []((pub_pc # "not_started" /\ Len(df) >= 1) => idx = ticks % Len(df))
    /\ [][publish_calls' # publish_calls =>
            /\ publish_calls' = publish_calls + 1
            /\ last_pub' = [tick |-> ticks, idx |-> ticks % Len(df)]
            /\ last_pub.tick < ticks
            /\ (last_pub.tick >= 0 /\ PassOf(last_pub.tick) = PassOf(ticks)) =>
                    last_pub.idx < last_pub'.idx]_vars
    /\ [][last_pub' # last_pub => publish_calls' # publish_calls]_vars
    /\ [](pub_pc \in {"lock2", "write_payload", "write_index", "advance"} =>
            (last_pub.tick # ticks => ~connected))

\* on two rows: row 0 published, row 1 skipped, row 0 published again in the
\* second pass
C23_Witness ==
    /\ Len(df) = 2
    /\ publish_calls = 2
    /\ last_pub = [tick |-> 2, idx |-> 0]
    /\ pub_pc = "publish"

\* C24: publish_count starts at 0 and no step decreases it, whichever thread
\* or callback takes the step; once the dataset is loaded, total_rows equals
\* its length and neither changes again.
C24_PublishCountMonotonic ==
    /\ state.publish_count = 0
    /\ [][state'.publish_count >= state.publish_count]_vars
    /\ [](main_pc \notin {"load", "load_error"} => state.total_rows = Len(df))
    /\ [][main_pc # "load" => (state'.total_rows = state.total_rows /\ df' = df)]_vars

\* a status read returned two acknowledged publishes; a disconnect and a
\* refused reconnect have happened and the count is still there
C24_Witness ==
    /\ state.publish_count = 2
    /\ ~state.mqtt_connected
    /\ state.last_error = PyStr("Connect failed: rc=5")
    /\ rd_pc = "returned"
    /\ rd.publish_count = 2
    /\ rd.total_rows = Len(df)
    /\ state.total_rows = 2

====
